---- MODULE Spec2Model ----
(***************************************************************************)
(* A model of oppm's three stores (meta.json, apps_dir, shims_dir), of the  *)
(* persisted configuration and of the operations of src/oppm/commands.py,  *)
(* metadata.py, shims.py and config.py on them.                            *)
(*                                                                         *)
(* A name such as "a.tar.gz" is the sequence of its dot-separated parts    *)
(* <<"a", "tar", "gz">>, so that Path.suffix and Path.stem are computed.   *)
(* A path is the sequence of its components (names) below the filesystem   *)
(* root.                                                                   *)
(***************************************************************************)
EXTENDS Integers, Sequences, FiniteSets, TLC

VARIABLES
    meta,    \* content of meta.json: the list meta["apps"]
    apps,    \* entries directly inside apps_dir, by name
    shims,   \* entries directly inside shims_dir, by name
    last,    \* the last call: operation, argument, exception raised, output
    config,     \* the persisted configuration (an OPPMConfig)
    elsewhere,  \* what lies at the root location the configuration does not name
    archive,    \* the backup archive file
    meta_json   \* the raw content of meta.json, where it is read as a file

vars == <<meta, apps, shims, last, config, elsewhere, archive, meta_json>>
\* What the operations on the three stores leave alone.
whole_root == <<config, elsewhere, archive, meta_json>>

-----------------------------------------------------------------------------
(* The bounded universe of names.                                          *)

A == <<"a">>
B == <<"b">>
AppNames == {A, B}
\* sorted(...) of application names: Python's string order.
SortedAppNames == <<A, B>>

ExeFile == <<"a", "exe">>
DataFile == <<"x">>
Files == {ExeFile, DataFile}

\* Shim names: the default one (the executable's own name) and a custom one.
S1 == ExeFile
S2 == <<"tool">>
ShimNames == {S1, S2}
\* The orders in which Path.iterdir may list shims_dir.
ShimOrders == {<<S1, S2>>, <<S2, S1>>}
\* sorted(...) of shim names: "a.exe" < "tool".
SortedShimNames == <<S1, S2>>

-----------------------------------------------------------------------------
(* Path configuration and path arithmetic.                                 *)

\* The two locations a root is kept at, and a path where nothing exists.
OldRoot == << <<"root">> >>
NewRoot == << <<"new">> >>
Roots == {OldRoot, NewRoot}
Gone == << <<"gone">> >>
OtherRoot(r) == IF r = OldRoot THEN NewRoot ELSE OldRoot

\* The configuration of a root: the three paths are derived from root_dir.
OPPMConfig(root) ==
    [root_dir |-> root,
     apps_dir |-> root \o << <<"apps">> >>,
     meta_file |-> root \o << <<"meta", "json">> >>,
     shims_dir |-> root \o << <<"shims">> >>]

\* The paths every operation reads from the configuration it is given.
root_dir == config.root_dir
apps_dir == config.apps_dir
meta_file == config.meta_file
shims_dir == config.shims_dir
\* A file that exists outside the root.
ExtFile == << <<"ext">> >>
\* The parent-directory component.
Up == <<"..">>

\* Path joining: base / name.
Join(base, rel) == base \o rel

\* Lexical normalisation of ".." components, left to right.
RECURSIVE NormFrom(_, _)
NormFrom(done, rest) ==
    IF rest = <<>> THEN done
    ELSE IF Head(rest) = Up
         THEN NormFrom(IF done = <<>> THEN <<>> ELSE SubSeq(done, 1, Len(done) - 1),
                       Tail(rest))
         ELSE NormFrom(Append(done, Head(rest)), Tail(rest))

Normalize(p) == NormFrom(<<>>, p)

\* PurePath.is_relative_to: a lexical prefix test, no normalisation.
is_relative_to(p, base) ==
    /\ Len(base) <= Len(p)
    /\ SubSeq(p, 1, Len(base)) = base

\* Length of the longest common prefix of two paths.
RECURSIVE CommonLen(_, _)
CommonLen(p, q) ==
    IF p = <<>> \/ q = <<>> \/ Head(p) # Head(q) THEN 0
    ELSE 1 + CommonLen(Tail(p), Tail(q))

\* PurePath.relative_to(base, walk_up=True).
relative_to_walk_up(p, base) ==
    LET k == CommonLen(p, base)
    IN  [i \in 1..(Len(base) - k) |-> Up] \o SubSeq(p, k + 1, Len(p))

-----------------------------------------------------------------------------
(* Directory entries.                                                      *)

Absent == [kind |-> "absent", files |-> {}]
StrayFile == [kind |-> "file", files |-> {}]
Dir(fs) == [kind |-> "dir", files |-> fs]
\* The entries the user puts at apps_dir/<n>, and the directory contents
\* inputs hold: application a in every shape, application b installed with
\* its executable or not at all.
Contents(n) == IF n = A THEN {{}, {ExeFile}, {DataFile}} ELSE {{ExeFile}}
AppEntries(n) ==
    (IF n = A THEN {Absent, StrayFile} ELSE {Absent}) \cup {Dir(fs) : fs \in Contents(n)}

NoShim == [kind |-> "absent", target |-> <<>>]
RegularFile == [kind |-> "file", target |-> <<>>]
SubDir == [kind |-> "dir", target |-> <<>>]
\* A symbolic link; target is the link text, relative to shims_dir.
Link(text) == [kind |-> "link", target |-> text]

\* What lies at an absolute, normalised path ("absent", "file" or "dir").
KindAt(a, p) ==
    IF p \in {root_dir, apps_dir, shims_dir} THEN "dir"
    ELSE IF p \in {meta_file, ExtFile} THEN "file"
    ELSE IF p = OtherRoot(root_dir) THEN (IF elsewhere = "absent" THEN "absent" ELSE "dir")
    ELSE IF Len(p) = 3 /\ is_relative_to(p, apps_dir) /\ p[3] \in AppNames
         THEN a[p[3]].kind
    ELSE IF Len(p) = 4 /\ is_relative_to(p, apps_dir) /\ p[3] \in AppNames
         THEN IF a[p[3]].kind = "dir" /\ p[4] \in a[p[3]].files
              THEN "file" ELSE "absent"
    ELSE "absent"
\* Path.exists() of a path that may hold ".." components.
exists(a, p) == KindAt(a, Normalize(p)) # "absent"

\* PurePath.relative_to(base) of a path below base.
relative_to(p, base) == SubSeq(p, Len(base) + 1, Len(p))

\* All orders in which a set can be enumerated.
Perms(S) ==
    {sq \in [1..Cardinality(S) -> S] : \A i, j \in DOMAIN sq : sq[i] = sq[j] => i = j}

\* sorted(S) for a set of application names.
Sorted(S) == SelectSeq(SortedAppNames, LAMBDA n : n \in S)

-----------------------------------------------------------------------------
(* metadata.py                                                             *)

AppEntry_RelativeToApps(app_name, app_dir) ==
    [name |-> app_name, relative_path |-> relative_to(app_dir, apps_dir)]

AppEntry(app_name, app_dir) ==
    [name |-> app_name, relative_path |-> relative_to(app_dir, root_dir)]

MetaNames(m) == {m[i].name : i \in DOMAIN m}

\* The list comprehension [app for app in meta["apps"] if app["name"] != app_name].
WithoutName(m, app_name) == SelectSeq(m, LAMBDA e : e.name # app_name)

add_app_to_metadata_NoFilter(m, app_name, app_dir) ==
    Append(m, AppEntry(app_name, app_dir))

add_app_to_metadata_Prepend(m, app_name, app_dir) ==
    <<AppEntry(app_name, app_dir)>> \o WithoutName(m, app_name)

add_app_to_metadata(m, app_name, app_dir) ==
    Append(WithoutName(m, app_name), AppEntry(app_name, app_dir))

remove_app_from_metadata_Always(m, app_name) ==
    [removed |-> TRUE, meta |-> WithoutName(m, app_name)]

remove_app_from_metadata_NeverSaves(m, app_name) ==
    [removed |-> FALSE, meta |-> m]

remove_app_from_metadata(m, app_name) ==
    LET kept == WithoutName(m, app_name)
    IN  IF Len(kept) = Len(m)
        THEN [removed |-> FALSE, meta |-> m]
        ELSE [removed |-> TRUE, meta |-> kept]

-----------------------------------------------------------------------------
(* commands.py: name derivation and install.                               *)

EXE_TYPES == {"exe", "bat", "cmd"}
UNARY_ARCHIVE_TYPES == {"zip", "tar", "tgz", "tbz2", "txz"}
BINARY_ARCHIVE_TYPES == {<<"tar", "gz">>, <<"tar", "bz2">>, <<"tar", "xz">>}

\* Path.suffix (without its dot; "" when the name has none) and Path.stem.
suffix(name) == IF Len(name) > 1 THEN name[Len(name)] ELSE ""
stem(name) == IF Len(name) > 1 THEN SubSeq(name, 1, Len(name) - 1) ELSE name

\* An input path: what lies there, its last component, and the files a
\* directory or an archive holds.
NoName == <<>>
InputDirs ==
    UNION {{[kind |-> "dir", name |-> n, files |-> fs] : fs \in Contents(n)} : n \in AppNames}
InputExes == {[kind |-> "file", name |-> ExeFile, files |-> {}]}
InputArchives ==
    {[kind |-> "file", name |-> <<"a", "zip">>, files |-> {DataFile}],
     [kind |-> "file", name |-> <<"b", "tar", "gz">>, files |-> {ExeFile}]}
InputOthers ==
    {[kind |-> "file", name |-> <<"a", "xyz">>, files |-> {}],
     [kind |-> "missing", name |-> <<"a", "zip">>, files |-> {}]}
InstallInputs == InputDirs \cup InputExes \cup InputArchives \cup InputOthers

_extract_app_name_from_path_AnySuffix(inp) ==
    IF inp.kind = "dir" THEN [ok |-> TRUE, name |-> inp.name]
    ELSE IF inp.kind = "file" THEN [ok |-> TRUE, name |-> stem(inp.name)]
    ELSE [ok |-> FALSE, name |-> NoName]

_extract_app_name_from_path_OneStem(inp) ==
    IF inp.kind = "dir" THEN [ok |-> TRUE, name |-> inp.name]
    ELSE IF inp.kind = "file"
    THEN IF suffix(inp.name) \in EXE_TYPES \cup UNARY_ARCHIVE_TYPES
         THEN [ok |-> TRUE, name |-> stem(inp.name)]
         ELSE IF /\ Len(inp.name) >= 3
                 /\ SubSeq(inp.name, Len(inp.name) - 1, Len(inp.name)) \in BINARY_ARCHIVE_TYPES
              THEN [ok |-> TRUE, name |-> stem(inp.name)]
              ELSE [ok |-> FALSE, name |-> NoName]
    ELSE [ok |-> FALSE, name |-> NoName]

_extract_app_name_from_path(inp) ==
    IF inp.kind = "dir" THEN [ok |-> TRUE, name |-> inp.name]
    ELSE IF inp.kind = "file"
    THEN IF suffix(inp.name) \in EXE_TYPES \cup UNARY_ARCHIVE_TYPES
         THEN [ok |-> TRUE, name |-> stem(inp.name)]
         ELSE IF /\ Len(inp.name) >= 3
                 /\ SubSeq(inp.name, Len(inp.name) - 1, Len(inp.name)) \in BINARY_ARCHIVE_TYPES
              THEN [ok |-> TRUE, name |-> stem(stem(inp.name))]
              ELSE [ok |-> FALSE, name |-> NoName]
    ELSE [ok |-> FALSE, name |-> NoName]

\* The content of app_dir after a complete materialization: copytree of a
\* directory, copy of one executable, or unpack_archive.
Materialized(inp) ==
    IF inp.kind = "dir" THEN inp.files
    ELSE IF suffix(inp.name) \in EXE_TYPES THEN {inp.name}
    ELSE inp.files

\* What an interrupted materialization may leave: nothing, or app_dir with
\* some of the files.
PartialEntries(inp) == {Absent} \cup {Dir(fs) : fs \in SUBSET Materialized(inp)}
\* The faults of one install: none, or a failure that leaves a partial entry.
NoFault == [fails |-> FALSE, partial |-> Absent]
InstallFaults(inp) == {NoFault} \cup {[fails |-> TRUE, partial |-> e] : e \in PartialEntries(inp)}

\* shutil.rmtree(app_dir) of an existing directory.
rmtree_Noop(a, n) == a

rmtree(a, n) == [a EXCEPT ![n] = Absent]

\* The except branch of install_app: delete app_dir when it exists.
CleanUpOnFailure_Skip(a, n) == a

CleanUpOnFailure(a, n) == IF a[n].kind # "absent" THEN rmtree(a, n) ELSE a

Outcome(m, a, sh, raised) == [meta |-> m, apps |-> a, shims |-> sh, raised |-> raised]

\* The warning install_app prints before it removes an existing app_dir.
RemovingOldVersion == <<"Removing old version">>

\* The try block of install_app, completed: copytree, or mkdir and copy, or
\* mkdir and unpack_archive put the files into app_dir.
Materialize(a, n, inp) == [a EXCEPT ![n] = Dir(a[n].files \cup Materialized(inp))]

\* app_name of an outcome is the name the call was about: the resulting
\* application name, or the override name when none was derived.
install_app(m, a, sh, inp, name, fault) ==
    IF inp.kind = "missing"
    THEN Outcome(m, a, sh, "InvalidInputError") @@ [app_name |-> name, log |-> {}]
    ELSE
    LET derived == _extract_app_name_from_path(inp)
    IN  IF ~derived.ok
        THEN Outcome(m, a, sh, "InvalidInputError") @@ [app_name |-> name, log |-> {}]
        ELSE
        LET app_name == IF name # NoName THEN name ELSE derived.name
            app_dir == Join(apps_dir, <<app_name>>)
            log == IF a[app_name].kind # "absent" THEN {RemovingOldVersion} ELSE {}
        IN  IF a[app_name].kind = "file"
            THEN \* rmtree of a regular file, outside the try block
                 Outcome(m, a, sh, "NotADirectoryError") @@ [app_name |-> app_name, log |-> log]
            ELSE
            LET a1 == IF a[app_name].kind # "absent" THEN rmtree(a, app_name) ELSE a
            IN  IF fault.fails
                THEN Outcome(m, CleanUpOnFailure([a1 EXCEPT ![app_name] = fault.partial], app_name),
                             sh, "InstallError") @@ [app_name |-> app_name, log |-> log]
                ELSE Outcome(add_app_to_metadata(m, app_name, app_dir),
                             Materialize(a1, app_name, inp),
                             sh, "none") @@ [app_name |-> app_name, log |-> log]
-----------------------------------------------------------------------------
(* shims.py                                                                *)

\* Path.resolve() of the entry shims_dir/<s>, a symbolic link.
ResolveShim(sh, s) == Normalize(Join(shims_dir, sh[s].target))

\* Path.exists() of shims_dir/<s>: it follows a symbolic link.
ShimPathExists(a, sh, s) ==
    CASE sh[s].kind = "absent" -> FALSE
      [] sh[s].kind = "link" -> KindAt(a, ResolveShim(sh, s)) # "absent"
      [] OTHER -> TRUE

\* The shims remove_shims_for_app unlinks.
ShimsOfApp_All(sh, app_dir) == {s \in ShimNames : sh[s].kind = "link"}

ShimsOfApp_Existing(sh, app_dir) ==
    {s \in ShimNames :
        /\ sh[s].kind = "link"
        /\ KindAt(apps, ResolveShim(sh, s)) # "absent"
        /\ is_relative_to(ResolveShim(sh, s), Normalize(app_dir))}

ShimsOfApp(sh, app_dir) ==
    {s \in ShimNames :
        /\ sh[s].kind = "link"
        /\ is_relative_to(ResolveShim(sh, s), Normalize(app_dir))}

Unlink(sh, S) == [s \in ShimNames |-> IF s \in S THEN NoShim ELSE sh[s]]

remove_shims_for_app(sh, app_dir) == Unlink(sh, ShimsOfApp(sh, app_dir))

create_shim_OverBroken(a, sh, execute_path, shim_name) ==
    IF ShimPathExists(a, sh, shim_name)
    THEN [shims |-> sh, raised |-> "ShimError"]
    ELSE [shims |-> [sh EXCEPT ![shim_name] =
                        Link(relative_to_walk_up(Normalize(execute_path), shims_dir))],
          raised |-> "none"]

create_shim(a, sh, execute_path, shim_name) ==
    IF ShimPathExists(a, sh, shim_name)
    THEN [shims |-> sh, raised |-> "ShimError"]
    ELSE IF sh[shim_name].kind # "absent"
    THEN \* symlink_to over a broken link: FileExistsError, an OSError
         [shims |-> sh, raised |-> "ShimError"]
    ELSE [shims |-> [sh EXCEPT ![shim_name] =
                        Link(relative_to_walk_up(Normalize(execute_path), shims_dir))],
          raised |-> "none"]

\* The (name, target) pairs of the symbolic links, sorted by name.  The
\* non-strict Path.resolve() of a link whose target does not exist returns
\* the path and raises nothing, so the except branch takes no link out.
list_shims(sh) ==
    LET names == SelectSeq(SortedShimNames, LAMBDA s : sh[s].kind = "link")
    IN  [i \in DOMAIN names |-> [name |-> names[i], target |-> ResolveShim(sh, names[i])]]

-----------------------------------------------------------------------------
(* commands.py: remove, update, clean, shims.                              *)

\* The rows list_apps prints: the entries sorted by name (a stable sort),
\* each with its name and root_dir / relative_path; none when there are no
\* entries.
RECURSIVE RowsInOrder(_, _)
RowsInOrder(m, names) ==
    IF names = <<>> THEN <<>>
    ELSE LET rows == SelectSeq(m, LAMBDA e : e.name = Head(names))
         IN  [i \in DOMAIN rows |->
                 [name |-> rows[i].name, path |-> Join(root_dir, rows[i].relative_path)]]
             \o RowsInOrder(m, Tail(names))

list_apps(m) == RowsInOrder(m, SortedAppNames)

\* The tail of remove_app: delete app_dir when it exists.
RemoveAppDir_Keep(a, app_name) == a

RemoveAppDir(a, app_name) == IF a[app_name].kind # "absent" THEN rmtree(a, app_name) ELSE a

\* The warning remove_app prints when app_dir does not exist.
DirMissing == <<"Application directory does not exist">>

remove_app(m, a, sh, app_name) ==
    LET r == remove_app_from_metadata(m, app_name)
        app_dir == Join(apps_dir, <<app_name>>)
    IN  IF ~r.removed THEN Outcome(m, a, sh, "AppNotFoundError") @@ [log |-> {}]
        ELSE LET sh1 == remove_shims_for_app(sh, app_dir)
                 log == ShimsOfApp(sh, app_dir)
                            \cup (IF a[app_name].kind = "absent" THEN {DirMissing} ELSE {})
             IN  IF a[app_name].kind = "file"
                 THEN \* rmtree of a regular file
                      Outcome(r.meta, a, sh1, "NotADirectoryError") @@ [log |-> log]
                 ELSE Outcome(r.meta, RemoveAppDir(a, app_name), sh1, "none") @@ [log |-> log]

\* The directories directly inside apps_dir.
actual_apps(a) == {n \in AppNames : a[n].kind = "dir"}

\* order enumerates the set apps_to_add as the for loop does.
update_metadata_AddOnly(m, a, order) ==
    m \o [i \in DOMAIN order |-> AppEntry(order[i], Join(apps_dir, <<order[i]>>))]

update_metadata(m, a, order) ==
    LET apps_to_remove == MetaNames(m) \ actual_apps(a)
        added == m \o [i \in DOMAIN order |->
                          AppEntry(order[i], Join(apps_dir, <<order[i]>>))]
    IN  SelectSeq(added, LAMBDA e : e.name \notin apps_to_remove)

\* update_metadata saves only when there is something to add or to remove;
\* it says which.
NoChangesFound == <<"No changes found">>
UpdateComplete == <<"Update complete">>
update_metadata_saves(m, a) ==
    actual_apps(a) \ MetaNames(m) # {} \/ MetaNames(m) \ actual_apps(a) # {}

clean_all_apps(a) == [n \in AppNames |-> Absent]

clean_all_shims(sh) == Unlink(sh, {s \in ShimNames : sh[s].kind = "link"})

\* The executable paths a caller passes to add_executable.
ExePaths ==
    {Join(apps_dir, <<n, ExeFile>>) : n \in AppNames}
        \cup {Join(apps_dir, <<Up, Up>>) \o ExtFile, ExtFile, Join(apps_dir, <<A, <<"nope">>>>)}

add_executable(a, sh, exe_path, exe_name) ==
    IF ~exists(a, exe_path) THEN [shims |-> sh, raised |-> "InvalidInputError"]
    ELSE LET shim_name == IF exe_name # NoName THEN exe_name ELSE exe_path[Len(exe_path)]
         IN  IF ~is_relative_to(exe_path, apps_dir)
             THEN [shims |-> sh, raised |-> "InvalidInputError"]
             ELSE create_shim(a, sh, exe_path, shim_name)

delete_executable(a, sh, shim_name) ==
    IF ~ShimPathExists(a, sh, shim_name) THEN [shims |-> sh, raised |-> "InvalidInputError"]
    ELSE IF sh[shim_name].kind # "link" THEN [shims |-> sh, raised |-> "InvalidInputError"]
    ELSE [shims |-> Unlink(sh, {shim_name}), raised |-> "none"]
-----------------------------------------------------------------------------
(* commands.py: verify_health.                                             *)

\* abs_path = config.root_dir / relative_path of a metadata entry.
abs_path(e) == Normalize(Join(root_dir, e.relative_path))

\* not any(abs_path.iterdir()) for a directory.
IsEmptyDir(a, p) ==
    IF Len(p) = 3 /\ is_relative_to(p, apps_dir) /\ p[3] \in AppNames
    THEN a[p[3]].kind = "dir" /\ a[p[3]].files = {}
    ELSE FALSE

invalid_apps(m, a) ==
    {m[i].name : i \in {j \in DOMAIN m : KindAt(a, abs_path(m[j])) # "dir"}}

empty_apps(m, a) ==
    {m[i].name : i \in {j \in DOMAIN m :
        KindAt(a, abs_path(m[j])) = "dir" /\ IsEmptyDir(a, abs_path(m[j]))}}

\* The orphan scan of the audit: it reads the metadata as loaded.
orphaned(m, a) == actual_apps(a) \ MetaNames(m)

\* Non-directory entries directly inside apps_dir.
files(a) == {n \in AppNames : a[n].kind # "absent" /\ a[n].kind # "dir"}

non_symlink_files(sh) == {s \in ShimNames : sh[s].kind \in {"file", "dir"}}

broken_shims(a, sh) ==
    {s \in ShimNames : sh[s].kind = "link" /\ KindAt(a, ResolveShim(sh, s)) = "absent"}

external_shims(a, sh) ==
    {s \in ShimNames :
        /\ sh[s].kind = "link"
        /\ KindAt(a, ResolveShim(sh, s)) # "absent"
        /\ ~is_relative_to(ResolveShim(sh, s), Normalize(apps_dir))}

issues_found(m, a, sh) ==
    \/ invalid_apps(m, a) # {}
    \/ empty_apps(m, a) # {}
    \/ orphaned(m, a) # {}
    \/ files(a) # {}
    \/ non_symlink_files(sh) # {}
    \/ broken_shims(a, sh) # {}
    \/ external_shims(a, sh) # {}

\* The lines of the summary "Found issues:" the audit prints, one for each
\* category that is not empty.
InvalidFound == <<"invalid/missing apps">>
EmptyFound == <<"empty apps">>
OrphanedFound == <<"orphaned directories">>
FilesFound == <<"unexpected single files">>
BrokenFound == <<"broken shims">>
ExternalFound == <<"external shims">>
NonSymlinkFound == <<"non-symlink files">>
issues_summary(m, a, sh) ==
    (IF invalid_apps(m, a) # {} THEN {InvalidFound} ELSE {})
        \cup (IF empty_apps(m, a) # {} THEN {EmptyFound} ELSE {})
        \cup (IF orphaned(m, a) # {} THEN {OrphanedFound} ELSE {})
        \cup (IF files(a) # {} THEN {FilesFound} ELSE {})
        \cup (IF broken_shims(a, sh) # {} THEN {BrokenFound} ELSE {})
        \cup (IF external_shims(a, sh) # {} THEN {ExternalFound} ELSE {})
        \cup (IF non_symlink_files(sh) # {} THEN {NonSymlinkFound} ELSE {})

FixMeta_KeepsEmpty(m, a) ==
    LET apps_to_remove == invalid_apps(m, a)
        pruned == SelectSeq(m, LAMBDA e : e.name \notin apps_to_remove)
        orph == Sorted(orphaned(m, a))
    IN  pruned \o [i \in DOMAIN orph |-> AppEntry(orph[i], Join(apps_dir, <<orph[i]>>))]

FixMeta_PruneOnly(m, a) ==
    LET apps_to_remove == invalid_apps(m, a) \cup empty_apps(m, a)
    IN  SelectSeq(m, LAMBDA e : e.name \notin apps_to_remove)

\* Fix, metadata: drop the invalid and empty entries, then append the
\* orphans the audit found, in sorted order.
FixMeta(m, a) ==
    LET apps_to_remove == invalid_apps(m, a) \cup empty_apps(m, a)
        pruned == SelectSeq(m, LAMBDA e : e.name \notin apps_to_remove)
        orph == Sorted(orphaned(m, a))
    IN  pruned \o [i \in DOMAIN orph |-> AppEntry(orph[i], Join(apps_dir, <<orph[i]>>))]

FixApps_Keep(a) == a

\* Fix, apps_dir: unlink the stray files.
FixApps_RemovesEmptyDirs(a) ==
    [n \in AppNames |-> IF n \in files(a) \/ a[n] = Dir({}) THEN Absent ELSE a[n]]

FixApps(a) == [n \in AppNames |-> IF n \in files(a) THEN Absent ELSE a[n]]

\* Fix, one class of shims: "if shim_path.exists(): shim_path.unlink()".
UnlinkIfExists(a, sh, S) == Unlink(sh, {s \in S : ShimPathExists(a, sh, s)})

\* Fix, non-symlink entries, in iteration order: unlink() of a directory
\* raises IsADirectoryError and ends the pass.
RECURSIVE UnlinkNonSymlinks(_, _, _)
UnlinkNonSymlinks(sh, order, S) ==
    IF order = <<>> THEN [shims |-> sh, raised |-> "none"]
    ELSE IF Head(order) \notin S THEN UnlinkNonSymlinks(sh, Tail(order), S)
    ELSE IF sh[Head(order)].kind = "dir" THEN [shims |-> sh, raised |-> "IsADirectoryError"]
    ELSE UnlinkNonSymlinks(Unlink(sh, {Head(order)}), Tail(order), S)

\* verify_health(config, fix=True); order is the iteration order of shims_dir.
verify_health_fix(m, a, sh, order) ==
    IF ~issues_found(m, a, sh) THEN Outcome(m, a, sh, "none")
    ELSE LET m1 == FixMeta(m, a)
             a1 == FixApps(a)
             sh1 == UnlinkIfExists(a1, sh, broken_shims(a, sh))
             sh2 == UnlinkIfExists(a1, sh1, external_shims(a, sh))
             r == UnlinkNonSymlinks(sh2, order, non_symlink_files(sh))
         IN  Outcome(m1, a1, r.shims, r.raised)

verify_health_NoShimCheck(m, a, sh) ==
    /\ invalid_apps(m, a) = {}
    /\ empty_apps(m, a) = {}
    /\ orphaned(m, a) = {}
    /\ files(a) = {}

\* verify_health(config, fix=False): the returned verdict.
verify_health(m, a, sh) == ~issues_found(m, a, sh)
-----------------------------------------------------------------------------
(* commands.py: pack.  The output file lies outside the root: its state    *)
(* before the call is an input, its state after the call is reported.      *)

\* The faults of one pack: make_archive may raise, having written a partial
\* output file or not, and the unlink of the cleanup may raise OSError.
PackFaults ==
    {[fails |-> FALSE, partial |-> FALSE, unlink_fails |-> FALSE]}
        \cup [fails : {TRUE}, partial : BOOLEAN, unlink_fails : BOOLEAN]

\* The except branch of pack.
CleanupIncomplete(out, fault) ==
    IF out # "absent"
    THEN IF fault.unlink_fails
         THEN [out |-> out, raised |-> "PackError"]
         ELSE [out |-> "absent", raised |-> "none"]
    ELSE [out |-> out, raised |-> "none"]

\* make_archive raised.
ArchiveFailed == <<"make_archive failed">>

pack(out0, overwrite, fault) ==
    IF out0 # "absent" /\ ~overwrite
    THEN [out |-> out0, raised |-> "PackError", log |-> {}]
    ELSE IF ~fault.fails
    THEN [out |-> "archive", raised |-> "none", log |-> {}]
    ELSE CleanupIncomplete(IF fault.partial THEN "partial" ELSE out0, fault)
            @@ [log |-> {ArchiveFailed}]

-----------------------------------------------------------------------------
(* The state machine.                                                      *)

\* The record of a call; input holds the arguments the claims refer to.
NoInput == [path |-> [kind |-> "none", name |-> <<>>, files |-> {}], name |-> <<>>]
CallWith(op, arg, input, raised, ret, log, out) ==
    [op |-> op, arg |-> arg, input |-> input, raised |-> raised, ret |-> ret,
     log |-> log, out |-> out]
Call(op, arg, raised, ret, log, out) == CallWith(op, arg, NoInput, raised, ret, log, out)

\* The archive file: absent, damaged, or a list of top-level items.
NoArchive == [state |-> "absent", items |-> {}]
\* No meta.json content is tracked while meta holds the parsed list.
Parsed == [state |-> "parsed"]

\* initialize: empty apps and shims directories, meta.json = {"apps": []}.
Init ==
    /\ config = OPPMConfig(OldRoot)
    /\ elsewhere = "absent"
    /\ archive = NoArchive
    /\ meta_json = Parsed
    /\ meta = <<>>
    /\ apps = [n \in AppNames |-> Absent]
    /\ shims = [s \in ShimNames |-> NoShim]
    /\ last = Call("initialize", NoName, "none", "None", {}, "n/a")

InstallApp ==
    \E inp \in InstallInputs, name \in AppNames \cup {NoName} :
      \E fault \in InstallFaults(inp) :
      \E r \in {install_app(meta, apps, shims, inp, name, fault)} :
            /\ r.raised # "InvalidInputError" => Materialized(inp) \in Contents(r.app_name)
            /\ meta' = r.meta
            /\ apps' = r.apps
            /\ shims' = r.shims
            /\ last' = Call("install_app", r.app_name, r.raised, "None", r.log, "n/a")
            /\ UNCHANGED whole_root

RemoveApp ==
    \E app_name \in AppNames :
        \E r \in {remove_app(meta, apps, shims, app_name)} :
            /\ meta' = r.meta
            /\ apps' = r.apps
            /\ shims' = r.shims
            /\ last' = Call("remove_app", app_name, r.raised, "None", r.log, "n/a")
            /\ UNCHANGED whole_root

UpdateMetadata ==
    \E order \in Perms(actual_apps(apps) \ MetaNames(meta)) :
        /\ meta' = IF update_metadata_saves(meta, apps)
                   THEN update_metadata(meta, apps, order) ELSE meta
        /\ last' = Call("update_metadata", NoName, "none", "None",
                        IF update_metadata_saves(meta, apps)
                        THEN {UpdateComplete} ELSE {NoChangesFound}, "n/a")
        /\ UNCHANGED <<apps, shims>>
        /\ UNCHANGED whole_root

CleanAll ==
    /\ meta' = <<>>
    /\ apps' = clean_all_apps(apps)
    /\ shims' = clean_all_shims(shims)
    /\ last' = Call("clean_all", NoName, "none", "None", {}, "n/a")
    /\ UNCHANGED whole_root

AddExecutable ==
    \E exe_path \in ExePaths, exe_name \in ShimNames \cup {NoName} :
        /\ exe_name = NoName => exe_path[Len(exe_path)] \in ShimNames
        /\ \E r \in {add_executable(apps, shims, exe_path, exe_name)} :
               /\ shims' = r.shims
               /\ last' = Call("add_executable",
                               IF exe_name # NoName THEN exe_name ELSE exe_path[Len(exe_path)],
                               r.raised, "None", {}, "n/a")
        /\ UNCHANGED <<meta, apps>>
        /\ UNCHANGED whole_root

DeleteExecutable ==
    \E shim_name \in ShimNames :
        \E r \in {delete_executable(apps, shims, shim_name)} :
            /\ shims' = r.shims
            /\ last' = Call("delete_executable", shim_name, r.raised, "None", {}, "n/a")
            /\ UNCHANGED <<meta, apps>>
            /\ UNCHANGED whole_root

\* show_shims: the rows of the table are the pairs list_shims returns.
ShowShims ==
    /\ last' = Call("show_shims", NoName, "none", list_shims(shims), {}, "n/a")
    /\ UNCHANGED <<meta, apps, shims>>
    /\ UNCHANGED whole_root

VerifyHealthFix ==
    \E order \in ShimOrders :
        \E r \in {verify_health_fix(meta, apps, shims, order)} :
            /\ meta' = r.meta
            /\ apps' = r.apps
            /\ shims' = r.shims
            /\ last' = Call("verify_health_fix", NoName, r.raised,
                            IF r.raised = "none" THEN "True" ELSE "None",
                            issues_summary(meta, apps, shims), "n/a")
            /\ UNCHANGED whole_root

VerifyHealth ==
    /\ last' = Call("verify_health", NoName, "none",
                    IF verify_health(meta, apps, shims) THEN "True" ELSE "False",
                    issues_summary(meta, apps, shims), "n/a")
    /\ UNCHANGED <<meta, apps, shims>>
    /\ UNCHANGED whole_root

Pack ==
    \E out0 \in {"absent", "old"}, overwrite \in BOOLEAN, fault \in PackFaults :
        \E r \in {pack(out0, overwrite, fault)} :
            /\ last' = Call("pack", NoName, r.raised, "None", r.log, r.out)
            /\ UNCHANGED <<meta, apps, shims>>
            /\ UNCHANGED whole_root

\* Out-of-band changes of the filesystem by the user.
LinkTexts ==
    {relative_to_walk_up(p, shims_dir) :
        p \in {Join(apps_dir, <<n, ExeFile>>) : n \in AppNames} \cup {ExtFile}}
\* The entries the user puts at shims_dir/<s>; a subdirectory only under the
\* first name.
ShimEntries(s) ==
    (IF s = S1 THEN {SubDir} ELSE {}) \cup {NoShim, RegularFile} \cup {Link(t) : t \in LinkTexts}

UserEditsApps ==
    \E n \in AppNames : \E e \in AppEntries(n) :
        /\ apps' = [apps EXCEPT ![n] = e]
        /\ last' = Call("user_edit", NoName, "none", "None", {}, "n/a")
        /\ UNCHANGED <<meta, shims>>
        /\ UNCHANGED whole_root

UserEditsShims ==
    \E s \in ShimNames : \E e \in ShimEntries(s) :
        /\ shims' = [shims EXCEPT ![s] = e]
        /\ last' = Call("user_edit", NoName, "none", "None", {}, "n/a")
        /\ UNCHANGED <<meta, apps>>
        /\ UNCHANGED whole_root

Next ==
    \/ InstallApp
    \/ RemoveApp
    \/ UpdateMetadata
    \/ CleanAll
    \/ AddExecutable
    \/ DeleteExecutable
    \/ ShowShims
    \/ VerifyHealthFix
    \/ VerifyHealth
    \/ Pack
    \/ UserEditsApps
    \/ UserEditsShims

Spec == Init /\ [][Next]_vars
\* Recovery: from any readable state of the stores, only fix passes run,
\* and they keep running.
MetaValues ==
    {<<>>} \cup UNION {{[i \in DOMAIN order |-> AppEntry(order[i], Join(apps_dir, <<order[i]>>))] :
                          order \in Perms(S)} : S \in SUBSET AppNames \ {{}}}

InitAnyStores ==
    /\ config = OPPMConfig(OldRoot)
    /\ elsewhere = "absent"
    /\ archive = NoArchive
    /\ meta_json = Parsed
    /\ meta \in MetaValues
    /\ apps \in {a \in [AppNames -> UNION {AppEntries(n) : n \in AppNames}] :
                    \A n \in AppNames : a[n] \in AppEntries(n)}
    /\ shims \in {sh \in [ShimNames -> UNION {ShimEntries(s) : s \in ShimNames}] :
                    \A s \in ShimNames : sh[s] \in ShimEntries(s)}
    /\ last = Call("user_edit", NoName, "none", "None", {}, "n/a")

SpecRecovery == InitAnyStores /\ [][VerifyHealthFix]_vars /\ WF_vars(VerifyHealthFix)

-----------------------------------------------------------------------------
(* commands.py: migrate_root.  The tree (meta, apps, shims) lies at the    *)
(* root the configuration names; a move carries it, link texts and         *)
(* relative paths included, to the other location.                         *)

\* What lies at a root location: "absent", "empty" (an empty directory) or
\* "content"; other is the state of the location the configuration does not
\* name.
RootState(other, r) ==
    IF r = root_dir THEN "content"
    ELSE IF r = OtherRoot(root_dir) THEN other
    ELSE "absent"

\* The faults of shutil.move: none; the copy to another filesystem fails,
\* having written something or nothing; or the removal of the source that
\* follows the copy fails, having removed the application directories lost.
MoveFaults(a) ==
    {[kind |-> "none", partial |-> FALSE, lost |-> {}]}
        \cup {[kind |-> "copy", partial |-> b, lost |-> {}] : b \in BOOLEAN}
        \cup {[kind |-> "delete", partial |-> FALSE, lost |-> S] :
                S \in (SUBSET {n \in AppNames : a[n].kind # "absent"}) \ {{}}}

SameLocation == <<"Source and destination are the same">>

Relocated(cfg, a, other, raised, log) ==
    [config |-> cfg, apps |-> a, elsewhere |-> other, raised |-> raised, log |-> log]

\* shutil.move(old_root_dir, new_root_dir) that raises.
FailedMove(a, fault) ==
    IF fault.kind = "copy"
    THEN [apps |-> a, elsewhere |-> IF fault.partial THEN "content" ELSE "absent"]
    ELSE [apps |-> [n \in AppNames |-> IF n \in fault.lost THEN Absent ELSE a[n]],
          elsewhere |-> "content"]

migrate_root_KeepsConfig(a, other, old_root_dir, new_root_dir, fault) ==
    IF RootState(other, Normalize(old_root_dir)) = "absent"
    THEN Relocated(config, a, other, "MigrationError", {})
    ELSE IF Normalize(old_root_dir) = Normalize(new_root_dir)
    THEN Relocated(config, a, other, "none", {SameLocation})
    ELSE IF RootState(other, Normalize(new_root_dir)) = "content"
    THEN Relocated(config, a, other, "MigrationError", {})
    ELSE Relocated(config, a, other, IF fault.kind = "none" THEN "none" ELSE "MigrationError", {})

migrate_root(a, other, old_root_dir, new_root_dir, fault) ==
    IF RootState(other, Normalize(old_root_dir)) = "absent"
    THEN Relocated(config, a, other, "MigrationError", {})
    ELSE IF Normalize(old_root_dir) = Normalize(new_root_dir)
    THEN Relocated(config, a, other, "none", {SameLocation})
    ELSE IF RootState(other, Normalize(new_root_dir)) = "content"
    THEN Relocated(config, a, other, "MigrationError", {})
    ELSE \* an empty new_root_dir is removed, then the move
         IF fault.kind = "none"
         THEN Relocated(OPPMConfig(new_root_dir), a, "absent", "none", {})
         ELSE LET f == FailedMove(a, fault)
              IN  Relocated(config, f.apps, f.elsewhere, "MigrationError", {})

-----------------------------------------------------------------------------
(* commands.py: the archive pack writes, and rebuild.                      *)

Tree(m, a, sh) == [meta |-> m, apps |-> a, shims |-> sh]
EmptyTree ==
    Tree(<<>>, [n \in AppNames |-> Absent], [s \in ShimNames |-> NoShim])

\* shutil.make_archive(root_dir=root.parent, base_dir=root.name): the
\* archive holds one top-level directory, named as the root, with the tree.
make_archive_NoApps(root, m, a, sh) ==
    [state |-> "archive",
     items |-> {[name |-> root[Len(root)], kind |-> "dir",
                 tree |-> Tree(m, [n \in AppNames |-> Absent], sh)]}]

make_archive(root, m, a, sh) ==
    [state |-> "archive",
     items |-> {[name |-> root[Len(root)], kind |-> "dir", tree |-> Tree(m, a, sh)]}]

\* The file a failed pack leaves when it cannot delete it.
Damaged == [state |-> "partial", items |-> {}]

\* Archives not written by pack: no top-level item, two directories, one
\* regular file.
OtherArchives ==
    {[state |-> "archive", items |-> {}],
     [state |-> "archive",
      items |-> {[name |-> <<"r1">>, kind |-> "dir", tree |-> EmptyTree],
                 [name |-> <<"r2">>, kind |-> "dir", tree |-> EmptyTree]}],
     [state |-> "archive",
      items |-> {[name |-> <<"f">>, kind |-> "file", tree |-> EmptyTree]}]}

\* The archive paths a caller passes: the archive file, another existing
\* file, and a path where nothing exists.
BackupTarGz == <<"backup", "tar", "gz">>
BackupZip == <<"backup", "zip">>
NoBackup == <<"none", "tar", "gz">>
ArchivePaths == {BackupTarGz, BackupZip, NoBackup}
NoPath == <<>>
Responses == {"y", "Y", "n"}
lower_AsTyped(response) == response

lower(response) == IF response = "Y" THEN "y" ELSE response

\* archive_path.exists() and str(archive_path).endswith(".tar.gz").
ArchiveExists(ar, archive_path) ==
    \/ archive_path = BackupZip
    \/ archive_path = BackupTarGz /\ ar.state # "absent"
EndsWithTarGz(name) ==
    Len(name) >= 3 /\ SubSeq(name, Len(name) - 1, Len(name)) = <<"tar", "gz">>

\* len(extracted_items) == 1 and extracted_items[0].is_dir().
ValidStructure_NonEmpty(items) == items # {}

ValidStructure(items) ==
    Cardinality(items) = 1 /\ \A i \in items : i.kind = "dir"

\* The extraction of _extract_and_place_archive: unpack_archive raises on a
\* damaged file; the extracted root is the one top-level directory.
_extract_and_place_archive(ar) ==
    IF ar.state = "partial" THEN [ok |-> FALSE, tree |-> EmptyTree]
    ELSE IF ~ValidStructure(ar.items) THEN [ok |-> FALSE, tree |-> EmptyTree]
    ELSE [ok |-> TRUE, tree |-> (CHOOSE i \in ar.items : TRUE).tree]

RebuildCancelled == <<"Rebuild cancelled">>

Rebuilt(cfg, t, other, raised, log) ==
    [config |-> cfg, meta |-> t.meta, apps |-> t.apps, shims |-> t.shims,
     elsewhere |-> other, raised |-> raised, log |-> log]

\* The move into place and save_config are taken to succeed.
rebuild(m, a, sh, other, ar, archive_path, new_root_dir, response) ==
    IF ~ArchiveExists(ar, archive_path)
    THEN Rebuilt(config, Tree(m, a, sh), other, "InvalidInputError", {})
    ELSE IF ~EndsWithTarGz(archive_path)
    THEN Rebuilt(config, Tree(m, a, sh), other, "InvalidInputError", {})
    ELSE
    LET target_dir == IF new_root_dir = NoPath THEN root_dir ELSE Normalize(new_root_dir)
    IN  IF RootState(other, target_dir) = "content" /\ lower(response) # "y"
        THEN Rebuilt(config, Tree(m, a, sh), other, "none", {RebuildCancelled})
        ELSE LET x == _extract_and_place_archive(ar)
             IN  IF ~x.ok
                 THEN Rebuilt(config, Tree(m, a, sh), other, "RebuildError", {})
                 ELSE \* the former root stays where it is
                      Rebuilt(OPPMConfig(target_dir), x.tree,
                              IF target_dir = root_dir THEN other ELSE "content",
                              "none", {})

-----------------------------------------------------------------------------
(* Relocation: migrate, pack and rebuild on a root the user has filled.    *)

Migrate ==
    \E old_root_dir \in {root_dir, Gone},
       new_root_dir \in Roots \cup {Join(root_dir, << <<"apps">>, Up >>)} :
      \E fault \in MoveFaults(apps) :
      \E r \in {migrate_root(apps, elsewhere, old_root_dir, new_root_dir, fault)} :
            /\ config' = r.config
            /\ apps' = r.apps
            /\ elsewhere' = r.elsewhere
            /\ last' = CallWith("migrate_root", NoName,
                                [old_root_dir |-> old_root_dir, new_root_dir |-> new_root_dir],
                                r.raised, "None", r.log, "n/a")
            /\ UNCHANGED <<meta, shims, archive, meta_json>>

\* pack, with the archive it writes kept.
PackRoot ==
    \E overwrite \in BOOLEAN, fault \in PackFaults :
        \E r \in {pack(IF archive.state = "absent" THEN "absent" ELSE "old", overwrite, fault)} :
            /\ archive' = CASE r.out = "archive" -> make_archive(root_dir, meta, apps, shims)
                            [] r.out = "partial" -> Damaged
                            [] r.out = "absent" -> NoArchive
                            [] OTHER -> archive
            /\ last' = Call("pack", NoName, r.raised, "None", r.log, r.out)
            /\ UNCHANGED <<meta, apps, shims, config, elsewhere, meta_json>>

Rebuild ==
    \E archive_path \in ArchivePaths, new_root_dir \in Roots \cup {NoPath},
       response \in Responses :
        \E r \in {rebuild(meta, apps, shims, elsewhere, archive,
                          archive_path, new_root_dir, response)} :
            /\ config' = r.config
            /\ meta' = r.meta
            /\ apps' = r.apps
            /\ shims' = r.shims
            /\ elsewhere' = r.elsewhere
            /\ last' = CallWith("rebuild", NoName,
                                [archive_path |-> archive_path, new_root_dir |-> new_root_dir,
                                 response |-> response],
                                r.raised, "None", r.log, "n/a")
            /\ UNCHANGED <<archive, meta_json>>

\* Out-of-band: the user creates, fills or removes the other root location,
\* and puts an archive of their own in place of the backup.
UserEditsElsewhere ==
    \E e \in {"absent", "empty", "content"} :
        /\ elsewhere' = e
        /\ last' = Call("user_edit", NoName, "none", "None", {}, "n/a")
        /\ UNCHANGED <<meta, apps, shims, config, archive, meta_json>>

UserPutsArchive ==
    \E ar \in OtherArchives \cup {NoArchive} :
        /\ archive' = ar
        /\ last' = Call("user_edit", NoName, "none", "None", {}, "n/a")
        /\ UNCHANGED <<meta, apps, shims, config, elsewhere, meta_json>>

\* A link text that reaches the executable of application a through the
\* name of the first root: ../../root/apps/a/a.exe.
RootedLinkText == <<Up, Up>> \o OldRoot \o << <<"apps">>, A, ExeFile >>

\* The roots the user has filled before relocating: application a listed or
\* not, the directories of a and b there or not, and one shim.
InitRelocate ==
    /\ config = OPPMConfig(OldRoot)
    /\ elsewhere = "absent"
    /\ archive = NoArchive
    /\ meta_json = Parsed
    /\ meta \in {<<>>, <<AppEntry(A, Join(apps_dir, <<A>>))>>}
    /\ apps \in {a \in [AppNames -> {Absent, Dir({ExeFile})}] : TRUE}
    /\ shims \in {[s \in ShimNames |-> IF s = S1 THEN e ELSE NoShim] :
                    e \in {NoShim,
                           Link(relative_to_walk_up(Join(apps_dir, <<A, ExeFile>>), shims_dir)),
                           Link(RootedLinkText)}}
    /\ last = Call("user_edit", NoName, "none", "None", {}, "n/a")

NextRelocate ==
    \/ Migrate
    \/ PackRoot
    \/ Rebuild
    \/ VerifyHealth
    \/ UserEditsElsewhere
    \/ UserPutsArchive

SpecRelocate == InitRelocate /\ [][NextRelocate]_vars

-----------------------------------------------------------------------------
(* metadata.py on the raw file: meta.json as the user may have left it.    *)

\* JSON values: a list, an object (a function from its keys), a number.
JList(items) == [type |-> "list", items |-> items]
JObject(fields) == [type |-> "object", fields |-> fields]
JNumber == [type |-> "number"]
JNull == [type |-> "null"]

\* The file: missing, a text that is not JSON, or a JSON document.
MissingFile == [state |-> "missing", value |-> JNull]
NotJson == [state |-> "text", value |-> JNull]
JsonFile(value) == [state |-> "json", value |-> value]

\* json.dump of {"apps": [...]} by save_metadata.
save_metadata(m) == JsonFile(JObject([apps |-> JList(m)]))

\* JSON documents that are not a {"apps": [...]} of entries: [], {}, null,
\* 5, {"apps": 5}, {"apps": [5]}, {"apps": [{}]}.
MalformedFiles ==
    {JsonFile(JList(<<>>)),
     JsonFile(JObject(<<>>)),
     JsonFile(JNull),
     JsonFile(JNumber),
     JsonFile(JObject([apps |-> JNumber])),
     JsonFile(JObject([apps |-> JList(<<JNumber>>)])),
     JsonFile(JObject([apps |-> JList(<<JObject(<<>>)>>)]))}

\* A well-formed document the operations do not write: two entries of
\* application a, the second with a path of its own, around the entry of b.
MovedEntry == [name |-> A, relative_path |-> << <<"old">>, A >>]
HandEditedFiles ==
    {save_metadata(<<AppEntry(A, Join(apps_dir, <<A>>)), AppEntry(B, Join(apps_dir, <<B>>)),
                     MovedEntry>>),
     save_metadata(<<MovedEntry, AppEntry(B, Join(apps_dir, <<B>>))>>)}

MetaFiles ==
    {MissingFile, NotJson} \cup MalformedFiles \cup HandEditedFiles
        \cup {save_metadata(m) : m \in MetaValues}

load_metadata(file) ==
    IF file.state = "missing" THEN [raised |-> "MetaFileError", value |-> JNull]
    ELSE IF file.state # "json"
    THEN \* json.JSONDecodeError
         [raised |-> "MetaFileError", value |-> JNull]
    ELSE [raised |-> "none", value |-> file.value]

\* What the callers do with the loaded value: meta["apps"], and app["name"]
\* for each app of it.
apps_of(value) ==
    IF value.type # "object" THEN [raised |-> "TypeError", apps |-> <<>>]
    ELSE IF "apps" \notin DOMAIN value.fields THEN [raised |-> "KeyError", apps |-> <<>>]
    ELSE IF value.fields.apps.type # "list" THEN [raised |-> "TypeError", apps |-> <<>>]
    ELSE LET items == value.fields.apps.items
             bad == {i \in DOMAIN items : "name" \notin DOMAIN items[i]}
         IN  IF bad = {} THEN [raised |-> "none", apps |-> items]
             ELSE IF \E i \in bad : items[i].type # "object"
             THEN [raised |-> "TypeError", apps |-> <<>>]
             ELSE [raised |-> "KeyError", apps |-> <<>>]

\* The list a caller of load_metadata works on, or the exception it ends with.
loaded_apps(file) ==
    LET r == load_metadata(file)
    IN  IF r.raised # "none" THEN [raised |-> r.raised, apps |-> <<>>] ELSE apps_of(r.value)

LoadMetadata ==
    \E r \in {load_metadata(meta_json)} :
        /\ last' = Call("load_metadata", NoName, r.raised, r.value, {}, "n/a")
        /\ UNCHANGED <<meta, apps, shims, config, elsewhere, archive, meta_json>>

ListApps ==
    \E r \in {loaded_apps(meta_json)} :
        /\ last' = Call("list_apps", NoName, r.raised,
                        IF r.raised = "none" THEN list_apps(r.apps) ELSE <<>>, {}, "n/a")
        /\ UNCHANGED <<meta, apps, shims, config, elsewhere, archive, meta_json>>

AddAppToMetadata ==
    \E app_name \in AppNames :
        \E r \in {loaded_apps(meta_json)} :
            /\ meta_json' = IF r.raised = "none"
                            THEN save_metadata(add_app_to_metadata(r.apps, app_name,
                                                   Join(apps_dir, <<app_name>>)))
                            ELSE meta_json
            /\ last' = Call("add_app_to_metadata", app_name, r.raised, "None", {}, "n/a")
            /\ UNCHANGED <<meta, apps, shims, config, elsewhere, archive>>

RemoveAppFromMetadata ==
    \E app_name \in AppNames :
        \E r \in {loaded_apps(meta_json)} :
            LET x == remove_app_from_metadata(r.apps, app_name)
            IN  /\ meta_json' = IF r.raised = "none" /\ x.removed
                                THEN save_metadata(x.meta) ELSE meta_json
                /\ last' = Call("remove_app_from_metadata", app_name, r.raised,
                                IF r.raised # "none" THEN "None"
                                ELSE IF x.removed THEN "True" ELSE "False", {}, "n/a")
                /\ UNCHANGED <<meta, apps, shims, config, elsewhere, archive>>

\* update_metadata: a MetaFileError of load_metadata is not caught.
UpdateMetadataFile ==
    \E r \in {loaded_apps(meta_json)} :
        \E order \in Perms(actual_apps(apps) \ MetaNames(r.apps)) :
            LET saves == r.raised = "none" /\ update_metadata_saves(r.apps, apps)
            IN  /\ meta_json' = IF saves THEN save_metadata(update_metadata(r.apps, apps, order))
                                ELSE meta_json
                /\ last' = Call("update_metadata", NoName, r.raised, "None",
                                IF r.raised # "none" THEN {}
                                ELSE IF saves THEN {UpdateComplete} ELSE {NoChangesFound}, "n/a")
                /\ UNCHANGED <<meta, apps, shims, config, elsewhere, archive>>

\* Out-of-band: the user deletes or rewrites meta.json.
UserEditsMetaFile ==
    \E file \in MetaFiles :
        /\ meta_json' = file
        /\ last' = Call("user_edit", NoName, "none", "None", {}, "n/a")
        /\ UNCHANGED <<meta, apps, shims, config, elsewhere, archive>>

\* A root with the directory of application a, and the meta.json initialize
\* writes: {"apps": []}.
InitMetaFile ==
    /\ config = OPPMConfig(OldRoot)
    /\ elsewhere = "absent"
    /\ archive = NoArchive
    /\ meta_json = save_metadata(<<>>)
    /\ meta = <<>>
    /\ apps = [n \in AppNames |-> IF n = A THEN Dir({ExeFile}) ELSE Absent]
    /\ shims = [s \in ShimNames |-> NoShim]
    /\ last = Call("initialize", NoName, "none", "None", {}, "n/a")

NextMetaFile ==
    \/ LoadMetadata
    \/ ListApps
    \/ UpdateMetadataFile
    \/ AddAppToMetadata
    \/ RemoveAppFromMetadata
    \/ UserEditsMetaFile
    \/ UserEditsApps

SpecMetaFile == InitMetaFile /\ [][NextMetaFile]_vars

-----------------------------------------------------------------------------
(* commands.py: name derivation on its own, over paths of every kind.      *)

\* The last components of the paths: a base of one or two parts (the parts
\* of a name are not empty), followed by no suffix, one suffix or two.
DeriveBases == {<<"a">>, <<"a", "b">>}
DeriveSuffixes ==
    EXE_TYPES \cup UNARY_ARCHIVE_TYPES \cup {"gz", "bz2", "xz", "xyz", "EXE"}
DeriveTails ==
    {<<>>} \cup {<<s>> : s \in DeriveSuffixes}
        \cup {<<"tar", s>> : s \in {"gz", "bz2", "xz", "zip", "exe", "xyz"}}
DeriveInputs ==
    {[kind |-> k, name |-> b \o t, files |-> {}] :
        k \in {"dir", "file", "missing"}, b \in DeriveBases, t \in DeriveTails}

\* A path is chosen on a freshly initialized root.
InitDerive ==
    /\ config = OPPMConfig(OldRoot)
    /\ elsewhere = "absent"
    /\ archive = NoArchive
    /\ meta_json = Parsed
    /\ meta = <<>>
    /\ apps = [n \in AppNames |-> Absent]
    /\ shims = [s \in ShimNames |-> NoShim]
    /\ \E inp \in DeriveInputs :
          last = CallWith("choose_path", NoName, [path |-> inp, name |-> NoName],
                          "none", NoName, {}, "n/a")

ExtractAppName ==
    \E r \in {_extract_app_name_from_path(last.input.path)} :
        /\ last' = CallWith("_extract_app_name_from_path", NoName, last.input,
                            IF r.ok THEN "none" ELSE "InvalidInputError", r.name, {}, "n/a")
        /\ UNCHANGED <<meta, apps, shims, config, elsewhere, archive, meta_json>>

SpecDerive == InitDerive /\ [][ExtractAppName]_vars

-----------------------------------------------------------------------------
(* commands.py: install_app under an override name that is not the name of *)
(* a direct child of apps_dir.  Such a name is kept whole; the path        *)
(* apps_dir / name has its components.                                     *)

UpShims == <<"../shims">>
OverrideNames == AppNames \cup {Up, UpShims}

\* The components pathlib appends for config.apps_dir / app_name.
Components(app_name) ==
    IF app_name = UpShims THEN <<Up, <<"shims">>>> ELSE <<app_name>>

\* The entries of shims_dir after it was removed and the input was
\* materialized there: the files of the input, as regular files.
MaterializedShims(inp) ==
    [s \in ShimNames |-> IF s \in Materialized(inp) THEN RegularFile ELSE NoShim]

\* install_app(input_path, config, name) with a name given; file is the
\* meta.json the call leaves.  No fault of the materialization is taken.
install_app_any_name(m, a, sh, file, inp, name) ==
    IF inp.kind = "missing" \/ ~_extract_app_name_from_path(inp).ok
    THEN Outcome(m, a, sh, "InvalidInputError") @@ [file |-> file]
    ELSE
    LET app_dir == Join(apps_dir, Components(name))
    IN  IF Normalize(app_dir) = root_dir
        THEN \* rmtree(apps_dir/..) removes all that root_dir holds, then
             \* fails on the path itself, apps_dir being gone
             Outcome(<<>>, [n \in AppNames |-> Absent], [s \in ShimNames |-> NoShim],
                     "FileNotFoundError") @@ [file |-> MissingFile]
        ELSE IF Normalize(app_dir) = shims_dir
        THEN \* shims_dir is removed and made anew from the input
             Outcome(add_app_to_metadata(m, name, app_dir), a, MaterializedShims(inp),
                     "none") @@ [file |-> file]
        ELSE LET r == install_app(m, a, sh, inp, name, NoFault)
             IN  Outcome(r.meta, r.apps, r.shims, r.raised) @@ [file |-> file]

\* One install with an override name on a root the user has filled.
InstallNamed ==
    /\ last.op = "user_edit"
    /\ \E inp \in InputDirs \cup InputExes, name \in OverrideNames :
        /\ name \in AppNames => Materialized(inp) \in Contents(name)
        /\ \E r \in {install_app_any_name(meta, apps, shims, meta_json, inp, name)} :
            /\ meta' = r.meta
            /\ apps' = r.apps
            /\ shims' = r.shims
            /\ meta_json' = r.file
            /\ last' = Call("install_app", name, r.raised, "None", {}, "n/a")
            /\ UNCHANGED <<config, elsewhere, archive>>

SpecOverride == InitAnyStores /\ [][InstallNamed]_vars

-----------------------------------------------------------------------------
(* Claims.                                                                 *)

Returned(op) == last.op = op /\ last.raised = "none"

\* The three stores agree: every metadata entry names an existing non-empty
\* directory directly under apps_dir, every directory of apps_dir has an
\* entry, and every entry of shims_dir is a symbolic link whose resolved
\* target exists inside apps_dir.
StoresAgree ==
    /\ \A i \in DOMAIN meta :
        /\ Len(abs_path(meta[i])) = Len(apps_dir) + 1
        /\ is_relative_to(abs_path(meta[i]), apps_dir)
        /\ KindAt(apps, abs_path(meta[i])) = "dir"
        /\ ~IsEmptyDir(apps, abs_path(meta[i]))
    /\ \A n \in AppNames : apps[n].kind = "dir" => n \in MetaNames(meta)
    /\ \A s \in ShimNames : shims[s].kind # "absent" =>
        /\ shims[s].kind = "link"
        /\ KindAt(apps, ResolveShim(shims, s)) # "absent"
        /\ is_relative_to(ResolveShim(shims, s), apps_dir)

MutatingOps ==
    {"install_app", "remove_app", "update_metadata", "clean_all",
     "add_executable", "delete_executable"}

\* C1: a call of install_app, remove_app, update_metadata, clean_all,
\* add_executable or delete_executable that starts with the three stores
\* agreeing and returns without raising leaves them agreeing.
C1_OperationsKeepStoresAgreeing ==
    [][(StoresAgree /\ last'.op \in MutatingOps /\ last'.raised = "none") => StoresAgree']_vars

\* C2: a verify_health(fix=True) pass that immediately follows another one
\* changes nothing in the metadata, in apps_dir or in shims_dir.
C2_FixPassIdempotent ==
    [][(last.op = "verify_health_fix" /\ last'.op = "verify_health_fix")
          => (meta' = meta /\ apps' = apps /\ shims' = shims)]_vars

\* C3: the metadata holds at most one entry per application name.
C3_UniqueNames ==
    \A i, j \in DOMAIN meta : meta[i].name = meta[j].name => i = j

\* C3 witness: an application was installed over an existing one of the same
\* name, beside another application.
C3_Reinstalled ==
    /\ Returned("install_app")
    /\ RemovingOldVersion \in last.log
    /\ Len(meta) = 2
    /\ meta[2].name = last.arg

Occurrences(rows, n) == Cardinality({i \in DOMAIN rows : rows[i].name = n})

\* C4: after a successful install_app the listing holds the name exactly
\* once and apps_dir/<name> is a directory; after a successful remove_app the
\* name is not in the listing and apps_dir/<name> does not exist.
C4_InstallListsRemoveUnlists ==
    /\ Returned("install_app") =>
        /\ Occurrences(list_apps(meta), last.arg) = 1
        /\ apps[last.arg].kind = "dir"
    /\ Returned("remove_app") =>
        /\ Occurrences(list_apps(meta), last.arg) = 0
        /\ apps[last.arg].kind = "absent"

\* C4 witness: an application was removed while the other one stays listed
\* and on disk.
C4_RemovedOneOfTwo ==
    /\ Returned("remove_app")
    /\ apps[last.arg].kind = "absent"
    /\ Len(list_apps(meta)) = 1
    /\ apps[list_apps(meta)[1].name].kind = "dir"

\* The resolved target of shim s lies inside apps_dir/<n>.
TargetInsideApp(sh, s, n) ==
    /\ sh[s].kind = "link"
    /\ LET t == ResolveShim(sh, s)
       IN  Len(t) >= 3 /\ t[1] = <<"root">> /\ t[2] = <<"apps">> /\ t[3] = n

\* C5: remove_app(name), once the metadata entry is found, deletes every
\* shim whose resolved target lies inside apps_dir/<name> and leaves every
\* other entry of shims_dir as it was.
C5_RemoveCascadesToOwnShimsOnly ==
    [][(last'.op = "remove_app" /\ last'.raised # "AppNotFoundError") =>
          \A s \in ShimNames :
              shims'[s] = IF TargetInsideApp(shims, s, last'.arg) THEN NoShim ELSE shims[s]]_vars

\* C5 witness: remove_app deleted a shim and another entry of shims_dir is
\* still there.
C5_ShimRemovedOtherKept ==
    /\ Returned("remove_app")
    /\ \E s \in ShimNames : s \in last.log
    /\ \E s \in ShimNames : shims[s].kind # "absent"

\* C6: after verify_health(fix=True), no shim the audit classified as broken
\* is still in shims_dir.
C6_BrokenShimsDeleted ==
    [][last'.op = "verify_health_fix" =>
          \A s \in broken_shims(apps, shims) : shims'[s].kind = "absent"]_vars

\* C7: after verify_health(fix=True), every entry of shims_dir the audit
\* classified as non-symlink or as external has been deleted.
C7_NonSymlinkAndExternalDeleted ==
    [][last'.op = "verify_health_fix" =>
          \A s \in non_symlink_files(shims) \cup external_shims(apps, shims) :
              shims'[s].kind = "absent"]_vars

\* C8: repeated verify_health(fix=True) passes reach a state in which
\* verify_health(fix=False) reports no issue.
C8_FixPassesReachHealth == <>verify_health(meta, apps, shims)

\* C9: when archive creation fails inside pack, pack raises PackError and no
\* output file is left.
C9_FailedPackRaisesAndCleans ==
    (last.op = "pack" /\ ArchiveFailed \in last.log) =>
        (last.raised = "PackError" /\ last.out = "absent")

\* C10: when materialization fails, install_app raises InstallError having
\* removed apps_dir/<name>, and the metadata is as it was before the call.
C10_FailedInstallRollsBack ==
    [][(last'.op = "install_app" /\ last'.raised = "InstallError") =>
          (apps'[last'.arg].kind = "absent" /\ meta' = meta)]_vars

\* C10 witness: an install failed for a name the metadata does not list, and
\* no directory of that name is left.
C10_InstallFailedNothingLeft ==
    /\ last.op = "install_app"
    /\ last.raised = "InstallError"
    /\ apps[last.arg].kind = "absent"
    /\ last.arg \notin MetaNames(meta)

\* C15: install_app over a name whose application directory exists
\* replaces it: after a successful call, whatever the input and the override
\* name, apps_dir/<name> holds exactly the files materialized from the input
\* and the metadata holds exactly one entry of that name.
C15_InstallReplaces ==
    \A inp \in InstallInputs, name \in AppNames \cup {NoName} :
        LET r == install_app(meta, apps, shims, inp, name, NoFault)
        IN  (r.raised = "none" /\ apps[r.app_name].kind = "dir") =>
                /\ r.apps[r.app_name] = Dir(Materialized(inp))
                /\ Occurrences(r.meta, r.app_name) = 1

\* C15 witness: an install replaced the old version of an application by a
\* directory without the executable, beside another application.
C15_ReplacedByOtherContent ==
    /\ Returned("install_app")
    /\ RemovingOldVersion \in last.log
    /\ apps[last.arg] = Dir({DataFile})
    /\ Len(meta) = 2

\* The inputs install_app rejects: a path where nothing exists, or a file
\* whose extension is neither an executable's nor an archive's.
Rejected(inp) ==
    \/ inp.kind = "missing"
    \/ /\ inp.kind = "file"
       /\ suffix(inp.name) \notin EXE_TYPES \cup UNARY_ARCHIVE_TYPES
       /\ ~(\E t \in BINARY_ARCHIVE_TYPES :
                Len(inp.name) >= 3 /\ SubSeq(inp.name, Len(inp.name) - 1, Len(inp.name)) = t)

\* C16: in every state, install_app of a nonexistent path or of a file with
\* an unrecognized extension raises InvalidInputError and leaves the
\* metadata, apps_dir and shims_dir as they are, with or without an override
\* name.
C16_RejectedInputChangesNothing ==
    \A inp \in InstallInputs, name \in AppNames \cup {NoName} :
        \A fault \in InstallFaults(inp) :
            Rejected(inp) =>
                LET r == install_app(meta, apps, shims, inp, name, fault)
                IN  /\ r.raised = "InvalidInputError"
                    /\ r.meta = meta
                    /\ r.apps = apps
                    /\ r.shims = shims

\* C16 witness: install_app raised InvalidInputError for an override name
\* under which an application is installed, with a shim into it.
C16_RejectedOverInstalled ==
    /\ last.op = "install_app"
    /\ last.raised = "InvalidInputError"
    /\ last.arg \in MetaNames(meta)
    /\ apps[last.arg].kind = "dir"
    /\ \E s \in ShimNames : TargetInsideApp(shims, s, last.arg)

\* C17: remove_app(name) of a name the metadata does not list raises
\* AppNotFoundError and changes nothing in the metadata, apps_dir and
\* shims_dir.
C17_RemoveUnlistedChangesNothing ==
    [][(last'.op = "remove_app" /\ last'.arg \notin MetaNames(meta)) =>
          /\ last'.raised = "AppNotFoundError"
          /\ meta' = meta
          /\ apps' = apps
          /\ shims' = shims]_vars

\* C17 witness: remove_app raised AppNotFoundError for a name whose
\* directory exists under apps_dir, with a shim into it.
C17_UnlistedDirKept ==
    /\ last.op = "remove_app"
    /\ last.raised = "AppNotFoundError"
    /\ apps[last.arg].kind = "dir"
    /\ \E s \in ShimNames : TargetInsideApp(shims, s, last.arg)

\* C18: remove_app(name) of a listed name whose directory is missing from
\* apps_dir returns without raising, the name is no longer listed, and the
\* shims into apps_dir/<name> are deleted.
C18_RemoveToleratesMissingDir ==
    [][(/\ last'.op = "remove_app"
        /\ last'.arg \in MetaNames(meta)
        /\ apps[last'.arg].kind = "absent") =>
          /\ last'.raised = "none"
          /\ last'.arg \notin MetaNames(meta')
          /\ \A s \in ShimNames : TargetInsideApp(shims, s, last'.arg) => shims'[s] = NoShim]_vars

\* C18 witness: remove_app returned having found no directory and having
\* deleted a shim.
C18_MissingDirShimRemoved ==
    /\ Returned("remove_app")
    /\ DirMissing \in last.log
    /\ \E s \in ShimNames : s \in last.log

\* C19: after update_metadata the names in the metadata are the names of
\* the directories directly under apps_dir; an added entry has the relative
\* path apps/<name>, the entries of names in both are kept as they were and
\* in their order, and when the two sets agree nothing is saved.
C19_UpdateSynchronizesNames ==
    [][last'.op = "update_metadata" =>
          LET dirs == {n \in AppNames : apps[n].kind = "dir"}
          IN  /\ MetaNames(meta') = dirs
              /\ \A i \in DOMAIN meta' :
                    meta'[i].name \notin MetaNames(meta) =>
                        meta'[i].relative_path = << <<"apps">>, meta'[i].name >>
              /\ SelectSeq(meta', LAMBDA e : e.name \in MetaNames(meta))
                    = SelectSeq(meta, LAMBDA e : e.name \in dirs)
              /\ MetaNames(meta) = dirs =>
                    (meta' = meta /\ last'.log = {NoChangesFound})
              /\ MetaNames(meta) # dirs => last'.log = {UpdateComplete}]_vars

\* C19 witness: update_metadata saved a list from which it dropped a name
\* without directory and to which it added a name.
C19_AddedAndDropped ==
    /\ last.op = "update_metadata"
    /\ UpdateComplete \in last.log
    /\ Len(meta) = 1
    /\ \E n \in AppNames : apps[n].kind = "file"

\* C11: a migrate_root that moved the root, started from a root on which
\* verify_health(fix=False) reports no issue, leaves the metadata and the
\* shim link texts unchanged, and verify_health(fix=False) on the new root
\* reports no issue.
C11_MigrateKeepsHealth ==
    [][(/\ last'.op = "migrate_root"
        /\ last'.raised = "none"
        /\ config' # config
        /\ verify_health(meta, apps, shims)) =>
          /\ meta' = meta
          /\ shims' = shims
          /\ verify_health(meta, apps, shims)']_vars

\* The root location a rebuild call aims at.
TargetOf(input) ==
    IF input.new_root_dir = NoPath THEN root_dir ELSE input.new_root_dir

\* C12: a rebuild onto the other root location that follows the pack that
\* wrote the archive, and that completes, leaves at the target the metadata
\* and the application tree of the packed root, and persists a configuration
\* whose four paths are those of the target.
C12_PackRebuildReproduces ==
    [][(/\ last.op = "pack"
        /\ last.out = "archive"
        /\ last'.op = "rebuild"
        /\ last'.raised = "none"
        /\ RebuildCancelled \notin last'.log
        /\ last'.input.new_root_dir = OtherRoot(root_dir)) =>
          /\ meta' = meta
          /\ apps' = apps
          /\ config'.root_dir = last'.input.new_root_dir
          /\ config'.apps_dir = last'.input.new_root_dir \o << <<"apps">> >>
          /\ config'.meta_file = last'.input.new_root_dir \o << <<"meta", "json">> >>
          /\ config'.shims_dir = last'.input.new_root_dir \o << <<"shims">> >>]_vars

\* C12 witness: a rebuild from an archive whose top-level directory is named
\* root has put a listed application at the second root location, over the
\* content that was there, and the configuration names that location.
C12_RebuiltAtNewRoot ==
    /\ Returned("rebuild")
    /\ RebuildCancelled \notin last.log
    /\ archive = make_archive(OldRoot, meta, apps, shims)
    /\ root_dir = NewRoot
    /\ last.input.response = "y"
    /\ meta # <<>>
    /\ apps[A].kind = "dir"

\* C13: a rebuild that goes ahead (the target is absent or empty, or the
\* overwrite was confirmed) on an archive whose top level is not exactly one
\* directory raises RebuildError, and the tree at the configured root, the
\* other root location and the configuration are unchanged.
C13_InvalidStructureRejected ==
    [][(/\ last'.op = "rebuild"
        /\ last'.input.archive_path = BackupTarGz
        /\ archive.state = "archive"
        /\ ~(Cardinality(archive.items) = 1 /\ \A i \in archive.items : i.kind = "dir")
        /\ \/ RootState(elsewhere, TargetOf(last'.input)) # "content"
           \/ last'.input.response \in {"y", "Y"}) =>
          /\ last'.raised = "RebuildError"
          /\ UNCHANGED <<meta, apps, shims, config, elsewhere>>]_vars

\* C13 witness: a confirmed rebuild onto a root location with content was
\* refused for an archive with two top-level directories.
C13_TwoDirectoriesRefused ==
    /\ last.op = "rebuild"
    /\ last.raised = "RebuildError"
    /\ Cardinality(archive.items) = 2
    /\ last.input.new_root_dir = OtherRoot(root_dir)
    /\ elsewhere = "content"
    /\ last.input.response = "y"
    /\ meta # <<>>

\* C20: migrate_root returns without any change when the two roots resolve
\* to the same location, raises MigrationError when old_root_dir does not
\* exist and when new_root_dir has content, and whenever it raises
\* MigrationError the tree at the old root and the configuration are
\* unchanged.
C20_MigrateFailuresChangeNothing ==
    [][last'.op = "migrate_root" =>
          LET old == Normalize(last'.input.old_root_dir)
              new == Normalize(last'.input.new_root_dir)
          IN  /\ (RootState(elsewhere, old) # "absent" /\ old = new) =>
                    (last'.raised = "none" /\ UNCHANGED <<meta, apps, shims, config, elsewhere>>)
              /\ RootState(elsewhere, old) = "absent" => last'.raised = "MigrationError"
              /\ (RootState(elsewhere, old) # "absent" /\ old # new
                    /\ RootState(elsewhere, new) = "content") => last'.raised = "MigrationError"
              /\ last'.raised = "MigrationError" =>
                    UNCHANGED <<meta, apps, shims, config>>]_vars

\* The conditions of the closed set the operations raise.
OPPMErrors ==
    {"ConfigError", "MetaFileError", "InvalidInputError", "AppNotFoundError",
     "InstallError", "ShimError", "MigrationError", "PackError", "RebuildError"}

\* meta.json holds {"apps": [...]} with a list of entries.
WellFormed(file) == file.state = "json" /\ apps_of(file.value).raised = "none"

\* C14: load_metadata raises MetaFileError when meta.json is missing, is not
\* JSON, or is not a well-formed {"apps": [...]}; a value it returns has the
\* apps list; and list_apps, add_app_to_metadata, remove_app_from_metadata
\* and update_metadata raise nothing but a condition of the closed set.
C14_LoadRejectsUnreadable ==
    /\ (last.op = "load_metadata" /\ ~WellFormed(meta_json)) => last.raised = "MetaFileError"
    /\ (last.op = "load_metadata" /\ last.raised = "none") => apps_of(last.ret).raised = "none"
    /\ last.op \in {"list_apps", "add_app_to_metadata", "remove_app_from_metadata",
                    "update_metadata"} =>
            last.raised \in OPPMErrors \cup {"none"}
\* C21: a migrate_root(old_root, new_root) to a different location that
\* returns leaves nothing at old_root, leaves the metadata, the application
\* directories and the shims, as they were, at new_root, and persists a
\* configuration with root_dir = new_root, apps_dir = new_root/apps,
\* meta_file = new_root/meta.json and shims_dir = new_root/shims.
C21_MigrateMovesRootAndConfig ==
    [][(/\ last'.op = "migrate_root"
        /\ last'.raised = "none"
        /\ Normalize(last'.input.old_root_dir) # Normalize(last'.input.new_root_dir)) =>
          \E old \in Roots, new \in Roots :
              /\ old = last'.input.old_root_dir
              /\ new = last'.input.new_root_dir
              /\ RootState(elsewhere, new) \in {"absent", "empty"}
              /\ RootState(elsewhere, old)' = "absent"
              /\ RootState(elsewhere, new)' = "content"
              /\ meta' = meta /\ apps' = apps /\ shims' = shims
              /\ config'.root_dir = new
              /\ config'.apps_dir = new \o << <<"apps">> >>
              /\ config'.meta_file = new \o << <<"meta", "json">> >>
              /\ config'.shims_dir = new \o << <<"shims">> >>]_vars

\* C21 witness: a migrate_root has moved a root with a listed application
\* and a shim to the second location, and nothing is left at the first.
C21_MovedToNewRoot ==
    /\ Returned("migrate_root")
    /\ SameLocation \notin last.log
    /\ last.input.new_root_dir = NewRoot
    /\ root_dir = NewRoot
    /\ elsewhere = "absent"
    /\ meta # <<>>
    /\ apps[A].kind = "dir"
    /\ shims[S1].kind = "link"

\* C22: the listing of list_shims holds, sorted by name, the name and the
\* resolved target of exactly the symbolic links of shims_dir whose target
\* exists: no regular file and no broken link appears in it.
C22_ListingOmitsBroken ==
    last.op = "show_shims" =>
        LET listed == SelectSeq(SortedShimNames,
                                LAMBDA s : /\ shims[s].kind = "link"
                                           /\ KindAt(apps, ResolveShim(shims, s)) # "absent")
        IN  last.ret = [i \in DOMAIN listed |->
                          [name |-> listed[i], target |-> ResolveShim(shims, listed[i])]]

\* C23: delete_executable(name) removes shims_dir/<name> whenever that entry
\* is a symbolic link, whether its target exists or not, and leaves every
\* other entry as it was; when there is no entry of that name or the entry
\* is not a symbolic link it raises InvalidInputError and changes nothing.
C23_DeleteRemovesAnySymlink ==
    [][last'.op = "delete_executable" =>
          IF shims[last'.arg].kind = "link"
          THEN /\ last'.raised = "none"
               /\ shims' = [shims EXCEPT ![last'.arg] = NoShim]
               /\ meta' = meta /\ apps' = apps
          ELSE /\ last'.raised = "InvalidInputError"
               /\ shims' = shims /\ meta' = meta /\ apps' = apps]_vars

\* C24: in every state and for every executable path, create_shim under a
\* name that shims_dir already holds (a valid shim, a broken symbolic link,
\* a regular file or a directory) raises ShimError and leaves shims_dir as
\* it is.
C24_CreateNeverOverwrites ==
    \A execute_path \in ExePaths, shim_name \in ShimNames :
        shims[shim_name].kind # "absent" =>
            LET r == create_shim(apps, shims, execute_path, shim_name)
            IN  r.raised = "ShimError" /\ r.shims = shims

\* C24 witness: add_executable reached create_shim, which raised ShimError
\* over a broken symbolic link, and the link is still there.
C24_RefusedOverBrokenLink ==
    /\ last.op = "add_executable"
    /\ last.raised = "ShimError"
    /\ shims[last.arg].kind = "link"
    /\ ~ShimPathExists(apps, shims, last.arg)

\* C25: in every state, add_executable of a path that does not exist or
\* does not lie inside apps_dir raises InvalidInputError and leaves shims_dir
\* as it is; a shim it creates is a symbolic link whose resolved target
\* exists and lies within apps_dir.
C25_AddCreatesOnlyValidShims ==
    \A exe_path \in ExePaths, exe_name \in ShimNames \cup {NoName} :
        (exe_name = NoName => exe_path[Len(exe_path)] \in ShimNames) =>
            LET r == add_executable(apps, shims, exe_path, exe_name)
                shim_name == IF exe_name # NoName THEN exe_name ELSE exe_path[Len(exe_path)]
                inside == /\ exists(apps, exe_path)
                          /\ is_relative_to(Normalize(exe_path), apps_dir)
            IN  /\ ~inside => (r.raised = "InvalidInputError" /\ r.shims = shims)
                /\ r.raised = "none" =>
                      /\ r.shims[shim_name].kind = "link"
                      /\ KindAt(apps, ResolveShim(r.shims, shim_name)) # "absent"
                      /\ is_relative_to(ResolveShim(r.shims, shim_name), apps_dir)

\* What the claims on the audit call the classes of problems.
\* An entry is invalid when its resolved path is missing or is not a
\* directory, and empty when the directory exists and holds nothing.
InvalidEntry(e) == KindAt(apps, abs_path(e)) # "dir"
EmptyEntry(e) == KindAt(apps, abs_path(e)) = "dir" /\ IsEmptyDir(apps, abs_path(e))
\* A directory directly under apps_dir with no metadata entry of its name.
OrphanedDirs == {n \in AppNames : apps[n].kind = "dir" /\ n \notin MetaNames(meta)}
\* A shim is valid when it is a symbolic link whose resolved target exists
\* inside apps_dir.
ValidShim(s) ==
    /\ shims[s].kind = "link"
    /\ KindAt(apps, ResolveShim(shims, s)) # "absent"
    /\ is_relative_to(ResolveShim(shims, s), apps_dir)
NoProblem ==
    /\ \A i \in DOMAIN meta : ~InvalidEntry(meta[i]) /\ ~EmptyEntry(meta[i])
    /\ OrphanedDirs = {}
    /\ \A n \in AppNames : apps[n].kind \in {"absent", "dir"}
    /\ \A s \in ShimNames : shims[s].kind # "absent" => ValidShim(s)

C27_FixDropsInvalidAndEmpty ==
    [][last'.op = "verify_health_fix" =>
          LET kept == SelectSeq(meta, LAMBDA e : ~InvalidEntry(e) /\ ~EmptyEntry(e))
          IN  /\ \A i \in DOMAIN meta' :
                    \A j \in DOMAIN meta :
                        meta'[i] = meta[j] => (~InvalidEntry(meta[j]) /\ ~EmptyEntry(meta[j]))
              /\ Len(meta') >= Len(kept)
              /\ SubSeq(meta', 1, Len(kept)) = kept]_vars

\* C27 witness: a fix pass found an empty entry and an invalid one, and the
\* metadata has no entry left.
C27_EmptyAndInvalidDropped ==
    /\ last.op = "verify_health_fix"
    /\ {InvalidFound, EmptyFound} \subseteq last.log
    /\ meta = <<>>

\* C28: after verify_health(fix=True) every directory the audit found
\* orphaned has exactly one metadata entry, with relative path apps/<name>,
\* and the names added are the names update_metadata would have added.
C28_FixAddsOrphansLikeUpdate ==
    [][last'.op = "verify_health_fix" =>
          /\ \A n \in OrphanedDirs :
                /\ Cardinality({i \in DOMAIN meta' : meta'[i].name = n}) = 1
                /\ \A i \in DOMAIN meta' :
                      meta'[i].name = n => meta'[i].relative_path = << <<"apps">>, n >>
          /\ \A order \in Perms(actual_apps(apps) \ MetaNames(meta)) :
                MetaNames(meta') \ MetaNames(meta)
                    = MetaNames(update_metadata(meta, apps, order)) \ MetaNames(meta)]_vars

\* C28 witness: a fix pass found orphaned directories, and the metadata
\* lists both applications.
C28_OrphansListed ==
    /\ last.op = "verify_health_fix"
    /\ OrphanedFound \in last.log
    /\ MetaNames(meta) = AppNames
    /\ \A n \in AppNames : apps[n].kind = "dir"

\* C29: after verify_health(fix=True) apps_dir holds no entry that is not a
\* directory: the stray files the audit found are deleted, and the
\* directories are as they were.
C29_FixDeletesStrayFiles ==
    [][last'.op = "verify_health_fix" =>
          \A n \in AppNames :
              /\ apps'[n].kind \in {"absent", "dir"}
              /\ apps[n].kind = "file" => apps'[n].kind = "absent"
              /\ apps[n].kind # "file" => apps'[n] = apps[n]]_vars

\* C29 witness: a fix pass found a stray file in apps_dir beside the
\* directory of an application, and the file is gone.
C29_StrayFileDeleted ==
    /\ last.op = "verify_health_fix"
    /\ FilesFound \in last.log
    /\ apps[A].kind = "absent"
    /\ apps[B].kind = "dir"

\* A rebuild step from the archive file onto a root location that has
\* content, where yes is the set of answers that confirm: with any other
\* answer the call returns, says it was cancelled, and the tree, the other
\* root location and the configuration are as they were; with an answer of
\* yes the call either raises RebuildError and changes nothing, or returns
\* with the target holding the tree of the archive's one top-level directory
\* and with the configuration naming the target.
RebuildAsksFirst(yes) ==
    (/\ last'.op = "rebuild"
     /\ last'.input.archive_path = BackupTarGz
     /\ archive.state # "absent"
     /\ RootState(elsewhere, TargetOf(last'.input)) = "content") =>
       IF last'.input.response \notin yes
       THEN /\ last'.raised = "none"
            /\ last'.log = {RebuildCancelled}
            /\ UNCHANGED <<meta, apps, shims, config, elsewhere>>
       ELSE /\ last'.log = {}
            /\ last'.raised \in {"none", "RebuildError"}
            /\ last'.raised = "RebuildError" =>
                  UNCHANGED <<meta, apps, shims, config, elsewhere>>
            /\ last'.raised = "none" =>
                  \E i \in archive.items, target \in Roots :
                      /\ archive.items = {i}
                      /\ i.kind = "dir"
                      /\ target = TargetOf(last'.input)
                      /\ config' = OPPMConfig(target)
                      /\ meta' = i.tree.meta
                      /\ apps' = i.tree.apps
                      /\ shims' = i.tree.shims
                      /\ RootState(elsewhere, target)' = "content"

\* C30, as stated: rebuild onto a target with content asks first, and any
\* answer other than "y" cancels it without error and without change; only
\* the answer "y" lets the archive's root directory replace the content.
C30_OnlyLowercaseYConfirms == [][RebuildAsksFirst({"y"})]_vars

\* C30, amended: the answer is compared without regard to case, so "y" and
\* "Y" confirm and any other answer cancels.
C30_AnswerConfirmsIgnoringCase == [][RebuildAsksFirst({"y", "Y"})]_vars

\* C30 witness: a rebuild from a packed archive onto the second root
\* location, which has content, was cancelled by the answer "n", and the
\* root with its listed application is where it was.
C30_CancelledKeepsTarget ==
    /\ Returned("rebuild")
    /\ RebuildCancelled \in last.log
    /\ last.input.response = "n"
    /\ last.input.new_root_dir = NewRoot
    /\ archive.state = "archive"
    /\ elsewhere = "content"
    /\ root_dir = OldRoot
    /\ meta # <<>>

\* C31: add_app_to_metadata(name) on a readable meta.json writes the list
\* without every entry of that name, the other entries as they were and in
\* their order, followed by the new entry; a second call with the same name
\* right after it leaves meta.json as the first one wrote it.
C31_UpsertReplacesAndIsIdempotent ==
    [][(last'.op = "add_app_to_metadata" /\ last'.raised = "none") =>
          /\ \E m \in {loaded_apps(meta_json).apps} :
                LET others == SelectSeq(m, LAMBDA e : e.name # last'.arg)
                    entry == [name |-> last'.arg,
                              relative_path |-> << <<"apps">>, last'.arg >>]
                IN  meta_json' = JsonFile(JObject([apps |-> JList(Append(others, entry))]))
          /\ (last.op = "add_app_to_metadata" /\ last.raised = "none"
                /\ last.arg = last'.arg) => meta_json' = meta_json]_vars

\* C31 witness: an upsert of application a has left its entry last, behind
\* the entry of b, with no other entry of a.
C31_UpsertedBehindOther ==
    /\ Returned("add_app_to_metadata")
    /\ last.arg = A
    /\ meta_json = save_metadata(<<AppEntry(B, Join(apps_dir, <<B>>)),
                                   AppEntry(A, Join(apps_dir, <<A>>))>>)

\* C32: remove_app_from_metadata(name) on a readable meta.json returns True
\* exactly when the list holds an entry of that name; it then writes the
\* list without the entries of that name, the others in their order; when it
\* returns False the content of meta.json is as it was.
C32_RemoveReportsPresence ==
    [][(last'.op = "remove_app_from_metadata" /\ last'.raised = "none") =>
          \E m \in {loaded_apps(meta_json).apps} :
              LET present == \E i \in DOMAIN m : m[i].name = last'.arg
                  others == SelectSeq(m, LAMBDA e : e.name # last'.arg)
              IN  /\ last'.ret = IF present THEN "True" ELSE "False"
                  /\ present => meta_json' = JsonFile(JObject([apps |-> JList(others)]))
                  /\ ~present => meta_json' = meta_json]_vars

\* C32 witness: a removal returned True and left the entry of the other
\* application, which has a path of its own.
C32_RemovedOtherKept ==
    /\ Returned("remove_app_from_metadata")
    /\ last.ret = "True"
    /\ last.arg = B
    /\ meta_json = save_metadata(<<MovedEntry>>)

\* The suffixes the claim on name derivation lists.
OneSuffix == {"exe", "bat", "cmd", "zip", "tar", "tgz", "tbz2", "txz"}
SecondSuffix == {"gz", "bz2", "xz"}
EndsInTarPlus(name) ==
    Len(name) >= 3 /\ name[Len(name) - 1] = "tar" /\ name[Len(name)] \in SecondSuffix

\* C33: name derivation returns, for a directory, its last path component;
\* for a file whose suffix is one of .exe, .bat, .cmd, .zip, .tar, .tgz,
\* .tbz2, .txz, the name without that suffix; for a file ending in .tar.gz,
\* .tar.bz2 or .tar.xz, the name without both; and for a file with any other
\* suffix, or none, it raises InvalidInputError.
C33_NameDerivation ==
    last.op = "_extract_app_name_from_path" =>
        LET name == last.input.path.name
            n == Len(name)
        IN  /\ last.input.path.kind = "dir" =>
                  (last.raised = "none" /\ last.ret = name)
            /\ (last.input.path.kind = "file" /\ n >= 2 /\ name[n] \in OneSuffix) =>
                  (last.raised = "none" /\ last.ret = SubSeq(name, 1, n - 1))
            /\ (last.input.path.kind = "file" /\ EndsInTarPlus(name)) =>
                  (last.raised = "none" /\ last.ret = SubSeq(name, 1, n - 2))
            /\ (/\ last.input.path.kind = "file"
                /\ ~(n >= 2 /\ name[n] \in OneSuffix)
                /\ ~EndsInTarPlus(name)) =>
                  last.raised = "InvalidInputError"

\* C33 witness: the name a.b was derived from the file a.b.tar.gz.
C33_BothSuffixesStripped ==
    /\ Returned("_extract_app_name_from_path")
    /\ last.input.path.kind = "file"
    /\ last.input.path.name = <<"a", "b", "tar", "gz">>
    /\ last.ret = <<"a", "b">>

\* C34: in one verify_health(fix=True) pass the orphan scan reads the
\* metadata as pruned: a directory under apps_dir whose entry the pass
\* prunes is reported as orphaned by the same pass, which therefore lists it
\* again.
C34_OrphanScanSeesPrunedMetadata ==
    [][last'.op = "verify_health_fix" =>
          \A n \in AppNames :
              (/\ apps[n].kind = "dir"
               /\ \E i \in DOMAIN meta :
                     /\ meta[i].name = n
                     /\ (InvalidEntry(meta[i]) \/ EmptyEntry(meta[i]))) =>
                  /\ OrphanedFound \in last'.log
                  /\ n \in MetaNames(meta')]_vars

\* C35: an install_app that raises InstallError for a name that is listed
\* and whose directory exists leaves that directory as it was, or else
\* leaves the metadata without an entry of the name.
C35_FailedReinstallKeepsOldVersion ==
    [][(/\ last'.op = "install_app"
        /\ last'.raised = "InstallError"
        /\ last'.arg \in MetaNames(meta)
        /\ apps[last'.arg].kind = "dir") =>
          \/ apps'[last'.arg] = apps[last'.arg]
          \/ last'.arg \notin MetaNames(meta')]_vars

\* C36: every metadata entry has the relative path apps/<name>, so that
\* root_dir/relative_path is the directory apps_dir/<name>.
C36_RelativePathIsAppsName ==
    \A i \in DOMAIN meta :
        /\ meta[i].relative_path = << <<"apps">>, meta[i].name >>
        /\ Join(root_dir, meta[i].relative_path) = Join(apps_dir, <<meta[i].name>>)

\* C36 witness: the metadata holds an entry written by install_app followed
\* by one that update_metadata has just added.
C36_InstalledThenSynced ==
    /\ last.op = "update_metadata"
    /\ UpdateComplete \in last.log
    /\ Len(meta) = 2
    /\ meta[2].name = A
    /\ apps[B].kind = "dir"

\* C37: verify_health(fix=True) leaves every directory under apps_dir in
\* place with its content; all it deletes are non-directory entries directly
\* inside apps_dir and entries of shims_dir.
C37_FixKeepsAppDirectories ==
    [][last'.op = "verify_health_fix" =>
          /\ \A n \in AppNames :
                /\ apps[n].kind = "dir" => apps'[n] = apps[n]
                /\ apps'[n] # apps[n] => (apps[n].kind = "file" /\ apps'[n] = Absent)
          /\ \A s \in ShimNames : shims'[s] # shims[s] => shims'[s] = NoShim
          /\ UNCHANGED <<config, elsewhere, archive, meta_json>>]_vars

\* C37 witness: a fix pass found an entry with an empty directory and has
\* dropped the entry; the empty directory and the directory of the other
\* application are still there.
C37_EmptyDirectoryKept ==
    /\ last.op = "verify_health_fix"
    /\ EmptyFound \in last.log
    /\ A \notin MetaNames(meta)
    /\ apps[A] = Dir({})
    /\ apps[B] = Dir({ExeFile})

\* C38: an install_app with an override name it accepts changes nothing but
\* the directory apps_dir/<name> and the metadata entry of that name: the
\* directories of the other applications, shims_dir, the entries of other
\* names and the file meta.json itself are as they were.
C38_OverrideNameTouchesOnlyItsOwn ==
    [][(last'.op = "install_app" /\ last'.raised # "InvalidInputError") =>
          /\ \A n \in AppNames : n # last'.arg => apps'[n] = apps[n]
          /\ shims' = shims
          /\ SelectSeq(meta', LAMBDA e : e.name # last'.arg)
                = SelectSeq(meta, LAMBDA e : e.name # last'.arg)
          /\ meta_json' = meta_json]_vars

====
